---- MODULE Spec2Model ----
(***************************************************************************)
(* Model of the instruction decoders of tx_decode.py and of the            *)
(* discriminator tables of util.py.                                        *)
(*                                                                         *)
(* Representation of Python values:                                        *)
(*   bytes      a sequence of integers 0..255 (index i of Python is i+1)   *)
(*   str        a TLA+ string                                              *)
(*   int        a small int is a TLA+ integer; an int read by              *)
(*              int.from_bytes is unbounded in Python and is kept as its   *)
(*              canonical little-endian base-256 digit sequence (no        *)
(*              most-significant zero digit; 0 is <<>>), since 64-bit      *)
(*              values do not fit the integers of the model checker        *)
(*   float      [mant, exp]: the value mant * 2^exp, mant a 53-bit         *)
(*              binary numeral, most significant bit first (0.0 has the    *)
(*              empty numeral)                                             *)
(*   dict       a record / function from keys to values                    *)
(*   None       an optional value is <<>> (None) or <<v>>                  *)
(*   raise      a call that raises is the outcome [raise |-> "<Error>"]    *)
(***************************************************************************)
EXTENDS Integers, Sequences, FiniteSets, TLC

(***************************************************************************)
(* Bounds of the explored inputs.                                          *)
(***************************************************************************)
\* longest instruction buffer explored (InitializeAccount needs 33 bytes)
MaxLen == 33
\* longest method_names list given to create_discriminators
MaxNames == 3
\* most instructions of one transaction, top-level and inner together
MaxInstr == 3

VARIABLES
    module_globals,  \* the module-level names of tx_decode.py and their values
    sha256           \* hashlib.sha256: the digest of every string a call hashes

(***************************************************************************)
(* Program ids, tx_decode.py lines 12-18.  A Pubkey is represented by its  *)
(* base58 text, which is what str(program_id) returns.  The names are      *)
(* module globals: a call reads their value when it runs.                  *)
(***************************************************************************)
SYSTEM_PROGRAM_ID == "11111111111111111111111111111111"
TOKEN_PROGRAM_ID == "TokenkegQfeZyiNwAJbNbGKPFXCWuBvf9Ss623VQ5DA"
TOKEN_2022_PROGRAM_ID == "TokenzQdBNbLqP5VEhdkAS6EPFLC1PHnBqCXEpPxuEb"
ASSOCIATED_TOKEN_PROGRAM_ID == "ATokenGPvbdGVxr1b2hvZbsiqW5xWH25efTNsLJA8knL"
RAYDIUM_AMM_V4_PROGRAM_ID == "675kPX9MHTjS2zt1qfr1NYHuzeLXfQM9H24wFSUt1Mp8"
RAYDIUM_CLMM_PROGRAM_ID == "CAMMCzo5YL8w4VFF8KVHrK22GGUsp5VTaW7grrKgrWqK"
RAYDIUM_CPMM_PROGRAM_ID == "CPMMoo8L3F4NbTegBCKVNunggL7H1ZpdTHKxQB5qKP1C"

ModuleGlobals ==
    [SYSTEM_PROGRAM_ID |-> SYSTEM_PROGRAM_ID,
     TOKEN_PROGRAM_ID |-> TOKEN_PROGRAM_ID,
     TOKEN_2022_PROGRAM_ID |-> TOKEN_2022_PROGRAM_ID,
     ASSOCIATED_TOKEN_PROGRAM_ID |-> ASSOCIATED_TOKEN_PROGRAM_ID,
     RAYDIUM_AMM_V4_PROGRAM_ID |-> RAYDIUM_AMM_V4_PROGRAM_ID,
     RAYDIUM_CLMM_PROGRAM_ID |-> RAYDIUM_CLMM_PROGRAM_ID,
     RAYDIUM_CPMM_PROGRAM_ID |-> RAYDIUM_CPMM_PROGRAM_ID]

(***************************************************************************)
(* Python primitives used by the decoders.                                 *)
(***************************************************************************)
Min(a, b) == IF a < b THEN a ELSE b

\* data[i] for 0 <= i < len(data)
At(data, i) == data[i + 1]

\* data[lo:hi] for 0 <= lo <= hi: a slice is clamped to the buffer, never raises
Slice(data, lo, hi) == SubSeq(data, lo + 1, Min(hi, Len(data)))

HexDigits == <<"0", "1", "2", "3", "4", "5", "6", "7",
               "8", "9", "a", "b", "c", "d", "e", "f">>

RECURSIVE HexWith(_, _)
HexWith(digits, data) ==
    IF data = <<>> THEN ""
    ELSE digits[(Head(data) \div 16) + 1] \o digits[(Head(data) % 16) + 1]
         \o HexWith(digits, Tail(data))

\* bytes.hex(): two lower-case hex digits per byte
hex(data) == HexWith(HexDigits, data)

\* drop the most significant zero digits of a little-endian digit sequence
RECURSIVE Canon(_)
Canon(s) ==
    IF s = <<>> THEN <<>>
    ELSE IF s[Len(s)] = 0 THEN Canon(SubSeq(s, 1, Len(s) - 1))
    ELSE s

\* int.from_bytes(s, 'little'): sum of s[i] * 256^i, of however many bytes s has
int_from_bytes(s) == Canon(s)

\* the Python int n, 0 <= n < 256, in the digit representation
ToBig(n) == IF n = 0 THEN <<>> ELSE <<n>>

\* quotient and remainder of a digit sequence by 10; the digits are visited
\* from the most significant one, r is the running remainder
RECURSIVE DivMod10(_, _, _)
DivMod10(s, i, r) ==
    IF i = 0 THEN [q |-> <<>>, r |-> r]
    ELSE LET cur  == r * 256 + s[i]
             rest == DivMod10(s, i - 1, cur % 10)
         IN  [q |-> Append(rest.q, cur \div 10), r |-> rest.r]

DecDigits == <<"0", "1", "2", "3", "4", "5", "6", "7", "8", "9">>

RECURSIVE DecStr(_)
DecStr(n) ==
    IF n = <<>> THEN ""
    ELSE LET d == DivMod10(n, Len(n), 0)
         IN  DecStr(Canon(d.q)) \o DecDigits[d.r + 1]

\* str(n) / f"{n}" of a non-negative int
str_int(n) == IF n = <<>> THEN "0" ELSE DecStr(n)

(***************************************************************************)
(* Arithmetic on digit sequences and Python's float.                       *)
(***************************************************************************)
\* a + b on little-endian base-256 digit sequences, c the carry in
RECURSIVE AddFrom(_, _, _, _)
AddFrom(a, b, i, c) ==
    IF i > Len(a) /\ i > Len(b)
    THEN (IF c = 0 THEN <<>> ELSE <<c>>)
    ELSE LET t == (IF i <= Len(a) THEN a[i] ELSE 0)
                  + (IF i <= Len(b) THEN b[i] ELSE 0) + c
         IN  <<t % 256>> \o AddFrom(a, b, i + 1, t \div 256)

BigAdd(a, b) == Canon(AddFrom(a, b, 1, 0))

\* a <= b on canonical digit sequences
RECURSIVE LeqFrom(_, _, _)
LeqFrom(a, b, i) ==
    IF i = 0 THEN TRUE
    ELSE IF a[i] # b[i] THEN a[i] < b[i]
    ELSE LeqFrom(a, b, i - 1)

BigLeq(a, b) ==
    IF Len(a) # Len(b) THEN Len(a) < Len(b) ELSE LeqFrom(a, b, Len(a))

\* a * 2^k for k < 8, by doubling
RECURSIVE Doubled(_, _)
Doubled(a, k) == IF k = 0 THEN a ELSE Doubled(BigAdd(a, a), k - 1)

\* a * 2^k: k \div 8 zero digits below a, then k % 8 doublings
BigShl(a, k) ==
    IF a = <<>> THEN <<>>
    ELSE Doubled([i \in 1..(k \div 8) |-> 0] \o a, k % 8)

\* a * d for a digit sequence a and one digit d, c the carry in
RECURSIVE MulDigitFrom(_, _, _, _)
MulDigitFrom(a, d, i, c) ==
    IF i > Len(a) THEN (IF c = 0 THEN <<>> ELSE <<c>>)
    ELSE LET t == a[i] * d + c
         IN  <<t % 256>> \o MulDigitFrom(a, d, i + 1, t \div 256)

\* a * b by the schoolbook method, from digit j of b on
RECURSIVE MulFrom(_, _, _)
MulFrom(a, b, j) ==
    IF j > Len(b) THEN <<>>
    ELSE BigAdd(Canon(MulDigitFrom(a, b[j], 1, 0)),
                BigShl(MulFrom(a, b, j + 1), 8))

BigMul(a, b) == MulFrom(a, b, 1)

\* the digit sequence of a small int
RECURSIVE BigOfInt(_)
BigOfInt(n) == IF n = 0 THEN <<>> ELSE <<n % 256>> \o BigOfInt(n \div 256)

\* the 8 bits of a byte, most significant first
ByteBits(b) == [i \in 1..8 |-> (b \div (2 ^ (8 - i))) % 2]

RECURSIVE StripZeros(_)
StripZeros(bits) ==
    IF bits # <<>> /\ Head(bits) = 0 THEN StripZeros(Tail(bits)) ELSE bits

\* the binary numeral of a digit sequence, most significant bit first
RECURSIVE BitsFrom(_, _)
BitsFrom(s, i) == IF i = 0 THEN <<>> ELSE ByteBits(s[i]) \o BitsFrom(s, i - 1)

Bits(n) == StripZeros(BitsFrom(n, Len(n)))

\* the digit sequence of a binary numeral
BigOfBits(bits) ==
    LET n == (Len(bits) + 7) \div 8
        P == [i \in 1..(8 * n - Len(bits)) |-> 0] \o bits
    IN  Canon([i \in 1..n |->
                  LET o == 8 * (n - i)
                  IN  128 * P[o + 1] + 64 * P[o + 2] + 32 * P[o + 3]
                      + 16 * P[o + 4] + 8 * P[o + 5] + 4 * P[o + 6]
                      + 2 * P[o + 7] + P[o + 8]])

\* binary long division of bits lo..hi of a numeral by the small int d, r the
\* remainder so far: the quotient bits and the remainder.  The range is halved
\* rather than walked, which keeps the evaluation shallow.
RECURSIVE LongDiv(_, _, _, _, _)
LongDiv(bits, lo, hi, r, d) ==
    IF lo > hi THEN [q |-> <<>>, r |-> r]
    ELSE IF lo = hi
    THEN LET cur == 2 * r + bits[lo]
         IN  IF cur >= d THEN [q |-> <<1>>, r |-> cur - d]
             ELSE [q |-> <<0>>, r |-> cur]
    ELSE LET mid   == (lo + hi) \div 2
             left  == LongDiv(bits, lo, mid, r, d)
             right == LongDiv(bits, mid + 1, hi, left.r, d)
         IN  [q |-> left.q \o right.q, r |-> right.r]

\* numeral + 1 (one bit longer when every bit is 1)
Inc(bits) ==
    IF \A i \in 1..Len(bits) : bits[i] = 1
    THEN <<1>> \o [i \in 1..Len(bits) |-> 0]
    ELSE LET j == CHOOSE i \in 1..Len(bits) :
                     bits[i] = 0 /\ \A k \in (i + 1)..Len(bits) : bits[k] = 1
         IN  [i \in 1..Len(bits) |->
                 IF i < j THEN bits[i] ELSE IF i = j THEN 1 ELSE 0]

\* bits of the significand of a Python float (IEEE-754 binary64)
MantBits == 53

Zeros(k) == [i \in 1..k |-> 0]

\* round to nearest, ties to even: up is <<last kept bit, guard bit, sticky>>
RoundsUp(up) == up[2] = 1 /\ (up[3] \/ up[1] = 1)

\* the numeral q (more than MantBits bits) times 2^e, inexact when rem # 0,
\* rounded to a float
RoundToFloat(q, rem, e) ==
    LET n      == Len(q)
        kept   == SubSeq(q, 1, MantBits)
        sticky == rem # 0 \/ \E i \in (MantBits + 2)..n : q[i] = 1
        m1     == IF RoundsUp(<<kept[MantBits], q[MantBits + 1], sticky>>)
                  THEN Inc(kept) ELSE kept
    IN  IF Len(m1) > MantBits
        THEN [mant |-> SubSeq(m1, 1, MantBits), exp |-> e + (n - MantBits) + 1]
        ELSE [mant |-> m1, exp |-> e + (n - MantBits)]

\* n / d of an int n >= 0 and a small int 0 < d < 2^30: the float nearest to the
\* quotient.  The dividend is scaled by 2^scale so that the quotient numeral has
\* more than MantBits + 1 bits.
true_div(n, d) ==
    IF n = <<>> THEN [mant |-> <<>>, exp |-> 0]
    ELSE LET scale == MantBits + 31
             num   == Bits(n) \o Zeros(scale)
             res   == LongDiv(num, 1, Len(num), 0, d)
         IN  RoundToFloat(StripZeros(res.q), res.r, 0 - scale)

\* dict.get(key, default) for a table keyed by small ints and an int key
Get(table, key, default) ==
    IF Len(key) <= 1 /\ (IF key = <<>> THEN 0 ELSE key[1]) \in DOMAIN table
    THEN table[IF key = <<>> THEN 0 ELSE key[1]]
    ELSE default

\* the digit sequence key is the small int n
IsInt(key, n) == key = ToBig(n)

(***************************************************************************)
(* The decoders of tx_decode.py.  A result dict is a record; the outcome   *)
(* of a call that raises is [raise |-> ...].                               *)
(***************************************************************************)
InvalidLength == [error |-> "Invalid data length"]

IndexError == [raise |-> "IndexError"]

UnknownAsHex(instruction_type) == "Unknown(0x" \o hex(instruction_type) \o ")"

\* f"Unknown({instruction_type})"
Unknown(instruction_type) == "Unknown(" \o str_int(instruction_type) \o ")"

Raw(instruction_name, data) == [type |-> instruction_name, raw_data |-> hex(data)]

\* lamports per SOL
LAMPORTS_PER_SOL == 1000000000

SYSTEM_INSTRUCTIONS ==
    (2 :> "Transfer") @@ (3 :> "CreateAccount") @@ (8 :> "CreateAccountWithSeed")

system_lamports_u32(data) == int_from_bytes(Slice(data, 4, 8))

\* lamports = int.from_bytes(data[4:12], 'little')
system_lamports(data) == int_from_bytes(Slice(data, 4, 12))

decode_system_instruction(data) ==
    IF Len(data) < 4 THEN InvalidLength
    ELSE LET instruction_type == int_from_bytes(Slice(data, 0, 4))
             instruction_name ==
                 Get(SYSTEM_INSTRUCTIONS, instruction_type, Unknown(instruction_type))
         IN  IF IsInt(instruction_type, 2)
             THEN LET lamports == system_lamports(data)
                  IN  [type |-> instruction_name,
                       lamports |-> lamports,
                       sol |-> true_div(lamports, LAMPORTS_PER_SOL)]
             ELSE Raw(instruction_name, data)

TOKEN_INSTRUCTIONS ==
    (1 :> "InitializeAccount") @@ (3 :> "Transfer") @@ (7 :> "MintTo")
    @@ (8 :> "Burn") @@ (9 :> "CloseAccount")

decode_token_instruction(data) ==
    IF Len(data) < 1 THEN InvalidLength
    ELSE LET instruction_type == ToBig(At(data, 0))
             instruction_name ==
                 Get(TOKEN_INSTRUCTIONS, instruction_type, Unknown(instruction_type))
         IN  IF IsInt(instruction_type, 1)
             THEN [type |-> instruction_name,
                   owner |-> IF Len(data) >= 33
                             THEN <<hex(Slice(data, 1, 33))>> ELSE <<>>]
             ELSE IF IsInt(instruction_type, 3)
             THEN [type |-> instruction_name,
                   amount |-> int_from_bytes(Slice(data, 1, 9))]
             ELSE Raw(instruction_name, data)

TOKEN_2022_INSTRUCTIONS_drifted ==
    (1 :> "InitializeAccount") @@ (3 :> "Transfer") @@ (7 :> "MintTo")
    @@ (8 :> "Burn") @@ (9 :> "CloseAccount") @@ (10 :> "FreezeAccount")

TOKEN_2022_INSTRUCTIONS ==
    (1 :> "InitializeAccount") @@ (3 :> "Transfer") @@ (7 :> "MintTo")
    @@ (8 :> "Burn") @@ (9 :> "CloseAccount")

decode_token_2022_instruction(data) ==
    IF Len(data) < 1 THEN InvalidLength
    ELSE LET instruction_type == ToBig(At(data, 0))
             instruction_name ==
                 Get(TOKEN_2022_INSTRUCTIONS, instruction_type,
                     Unknown(instruction_type))
         IN  IF IsInt(instruction_type, 1)
             THEN [type |-> instruction_name,
                   owner |-> IF Len(data) >= 33
                             THEN <<hex(Slice(data, 1, 33))>> ELSE <<>>]
             ELSE IF IsInt(instruction_type, 3)
             THEN [type |-> instruction_name,
                   amount |-> int_from_bytes(Slice(data, 1, 9))]
             ELSE Raw(instruction_name, data)

RAYDIUM_AMM_INSTRUCTIONS ==
    (1 :> "Initialize") @@ (2 :> "Swap") @@ (3 :> "DepositAllTokenTypes")
    @@ (4 :> "WithdrawAllTokenTypes")
    @@ (5 :> "DepositSingleTokenTypeExactAmountIn")
    @@ (6 :> "WithdrawSingleTokenTypeExactAmountOut")

\* the try blocks of lines 148-157 and 160-169 hold slices and int.from_bytes
\* only, neither of which raises on a short buffer: the except branch is dead
decode_raydium_amm_instruction(data) ==
    IF Len(data) < 1 THEN InvalidLength
    ELSE LET instruction_type == ToBig(At(data, 0))
             instruction_name ==
                 Get(RAYDIUM_AMM_INSTRUCTIONS, instruction_type,
                     Unknown(instruction_type))
         IN  IF IsInt(instruction_type, 2)
             THEN [type |-> instruction_name,
                   amount_in |-> int_from_bytes(Slice(data, 1, 9)),
                   minimum_amount_out |-> int_from_bytes(Slice(data, 9, 17))]
             ELSE IF IsInt(instruction_type, 3) \/ IsInt(instruction_type, 4)
             THEN [type |-> instruction_name,
                   max_coin_amount |-> int_from_bytes(Slice(data, 1, 9)),
                   max_pc_amount |-> int_from_bytes(Slice(data, 9, 17))]
             ELSE Raw(instruction_name, data)

RAYDIUM_CLMM_INSTRUCTIONS ==
    (0 :> "CreatePool") @@ (1 :> "OpenPosition") @@ (2 :> "ClosePosition")
    @@ (3 :> "Swap") @@ (4 :> "IncreasePosition") @@ (5 :> "DecreasePosition")

decode_raydium_clmm_instruction(data) ==
    IF Len(data) < 1 THEN InvalidLength
    ELSE LET instruction_type == ToBig(At(data, 0))
             instruction_name ==
                 Get(RAYDIUM_CLMM_INSTRUCTIONS, instruction_type,
                     Unknown(instruction_type))
         IN  IF IsInt(instruction_type, 3)
             THEN [type |-> instruction_name,
                   amount_in |-> int_from_bytes(Slice(data, 1, 9)),
                   amount_out_minimum |-> int_from_bytes(Slice(data, 9, 17)),
                   sqrt_price_limit |-> int_from_bytes(Slice(data, 17, 25))]
             ELSE Raw(instruction_name, data)

RAYDIUM_CPMM_INSTRUCTIONS ==
    (0 :> "CreateAmmConfig") @@ (1 :> "UpdateAmmConfig")
    @@ (2 :> "UpdatePoolStatus") @@ (3 :> "CollectProtocolFee")
    @@ (4 :> "CollectFundFee") @@ (5 :> "Initialize") @@ (6 :> "Deposit")
    @@ (7 :> "Withdraw") @@ (8 :> "SwapBaseInput") @@ (9 :> "SwapBaseOutput")

cpmm_opcode_at_0(data) == ToBig(At(data, 0))

\* instruction_type = data[8]
cpmm_instruction_type(data) == ToBig(At(data, 8))

\* data[8] of line 223 is an index, not a slice, and stands before the try of
\* line 241: on a buffer of 1 to 8 bytes it raises IndexError out of the decoder
decode_raydium_cpmm_instruction(data) ==
    IF Len(data) < 1 THEN InvalidLength
    ELSE IF Len(data) <= 8 THEN IndexError
    ELSE LET instruction_type == cpmm_instruction_type(data)
             instruction_name ==
                 Get(RAYDIUM_CPMM_INSTRUCTIONS, instruction_type,
                     Unknown(instruction_type))
         IN  IF IsInt(instruction_type, 5)
             THEN [type |-> instruction_name,
                   init_amount_0 |-> int_from_bytes(Slice(data, 1, 9)),
                   init_amount_1 |-> int_from_bytes(Slice(data, 9, 17)),
                   open_time |-> int_from_bytes(Slice(data, 17, 25))]
             ELSE IF IsInt(instruction_type, 6)
             THEN [type |-> instruction_name,
                   lp_token_amount |-> int_from_bytes(Slice(data, 1, 9)),
                   maximum_token_0_amount |-> int_from_bytes(Slice(data, 9, 17)),
                   maximum_token_1_amount |-> int_from_bytes(Slice(data, 17, 25))]
             ELSE IF IsInt(instruction_type, 7)
             THEN [type |-> instruction_name,
                   lp_token_amount |-> int_from_bytes(Slice(data, 1, 9)),
                   minimum_token_0_amount |-> int_from_bytes(Slice(data, 9, 17)),
                   minimum_token_1_amount |-> int_from_bytes(Slice(data, 17, 25))]
             ELSE IF IsInt(instruction_type, 8)
             THEN [type |-> instruction_name,
                   amount_in |-> int_from_bytes(Slice(data, 1, 9)),
                   minimum_amount_out |-> int_from_bytes(Slice(data, 9, 17))]
             ELSE IF IsInt(instruction_type, 9)
             THEN [type |-> instruction_name,
                   max_amount_in |-> int_from_bytes(Slice(data, 1, 9)),
                   amount_out |-> int_from_bytes(Slice(data, 9, 17))]
             ELSE Raw(instruction_name, data)

RegisteredPrograms ==
    {SYSTEM_PROGRAM_ID, TOKEN_PROGRAM_ID, TOKEN_2022_PROGRAM_ID,
     RAYDIUM_AMM_V4_PROGRAM_ID, RAYDIUM_CLMM_PROGRAM_ID, RAYDIUM_CPMM_PROGRAM_ID}

\* a dispatcher that checks the length before it looks the program up
decode_length_first(pid, d) ==
    IF Len(d) < 1 THEN InvalidLength
    ELSE IF pid = module_globals.SYSTEM_PROGRAM_ID
    THEN decode_system_instruction(d)
    ELSE IF pid = module_globals.TOKEN_PROGRAM_ID
    THEN decode_token_instruction(d)
    ELSE IF pid = module_globals.TOKEN_2022_PROGRAM_ID
    THEN decode_token_2022_instruction(d)
    ELSE IF pid = module_globals.RAYDIUM_AMM_V4_PROGRAM_ID
    THEN decode_raydium_amm_instruction(d)
    ELSE IF pid = module_globals.RAYDIUM_CPMM_PROGRAM_ID
    THEN decode_raydium_cpmm_instruction(d)
    ELSE IF pid = module_globals.RAYDIUM_CLMM_PROGRAM_ID
    THEN decode_raydium_clmm_instruction(d)
    ELSE [program |-> pid, raw_data |-> hex(d)]

decode_instruction_data(pid, d) ==
    LET program_id_str == pid
    IN  IF program_id_str = module_globals.SYSTEM_PROGRAM_ID
        THEN decode_system_instruction(d)
        ELSE IF program_id_str = module_globals.TOKEN_PROGRAM_ID
        THEN decode_token_instruction(d)
        ELSE IF program_id_str = module_globals.TOKEN_2022_PROGRAM_ID
        THEN decode_token_2022_instruction(d)
        ELSE IF program_id_str = module_globals.RAYDIUM_AMM_V4_PROGRAM_ID
        THEN decode_raydium_amm_instruction(d)
        ELSE IF program_id_str = module_globals.RAYDIUM_CPMM_PROGRAM_ID
        THEN decode_raydium_cpmm_instruction(d)
        ELSE IF program_id_str = module_globals.RAYDIUM_CLMM_PROGRAM_ID
        THEN decode_raydium_clmm_instruction(d)
        ELSE [program |-> program_id_str, raw_data |-> hex(d)]

(***************************************************************************)
(* util.py: discriminators.  hashlib.sha256 is a fixed function that the   *)
(* model does not compute: sha256 holds the 32-byte digest of each string  *)
(* a call hashes, and InitDisc ranges over the digests it may hold.        *)
(***************************************************************************)
get_instruction_discriminator(instruction_name, scope) ==
    LET preimage      == scope \o ":" \o instruction_name
        hash_bytes    == sha256[preimage]
        discriminator == Slice(hash_bytes, 0, 8)
    IN  discriminator

\* dict[key] = value
Put(dict, key, value) ==
    [x \in (DOMAIN dict) \cup {key} |-> IF x = key THEN value ELSE dict[x]]

\* a loop body that files the inverse entry under the name
record_by_name(res, method_name, disc) ==
    [func_disc |-> Put(res.func_disc, method_name, disc),
     disc_func |-> Put(res.disc_func, method_name, disc)]

\* the body of the loop over method_names
record_discriminator(res, method_name, disc) ==
    [func_disc |-> Put(res.func_disc, method_name, disc),
     disc_func |-> Put(res.disc_func, disc, method_name)]

RECURSIVE discriminators_from(_, _, _, _)
discriminators_from(method_names, scope, i, res) ==
    IF i > Len(method_names) THEN res
    ELSE discriminators_from(
             method_names, scope, i + 1,
             record_discriminator(
                 res, method_names[i],
                 hex(get_instruction_discriminator(method_names[i], scope))))

create_discriminators(method_names, scope) ==
    discriminators_from(method_names, scope, 1,
                        [func_disc |-> <<>>, disc_func |-> <<>>])

(***************************************************************************)
(* The state of the three runs that are checked: one call of               *)
(* decode_instruction_data, one call of create_discriminators, one run of  *)
(* print_transaction_details.  A specification runs one of them and leaves *)
(* the variables of the other two idle.                                    *)
(***************************************************************************)
VARIABLES
    \* one call of decode_instruction_data
    program_id,      \* the first argument of the call
    data,            \* the second argument of the call
    result,          \* NoResult before the call, its outcome after it
    pc,              \* "call" before the call, "done" after it
    \* one call of create_discriminators
    method_names,    \* its first argument
    scope,           \* its second argument
    created,         \* NoResult before the call, the dict it returns after it
    rederived,       \* <<>>, or <<name, hex>> of a later discriminator call
    \* one run of print_transaction_details
    instructions,        \* message.instructions, each [program_id, data]
    inner_instructions,  \* meta.inner_instructions, each [index, instructions]
    idx,                 \* the index of the top-level instruction at hand
    inner_pos,           \* how many of its inner instructions are decoded
    tpc,                 \* "top", "inner", "done" or "raised"
    log                  \* the calls made so far, each [program_id, data, result]

decodeVars == <<program_id, data, result, pc>>

discVars == <<method_names, scope, sha256, created, rederived>>

txVars == <<instructions, inner_instructions, idx, inner_pos, tpc, log>>

vars == <<module_globals, decodeVars, discVars, txVars>>

NoResult == [pending |-> TRUE]

ProgramIds == RegisteredPrograms \cup {ASSOCIATED_TOKEN_PROGRAM_ID}

\* values of byte 0: every opcode of every table, and two in no table
Byte0Values == 0..10 \cup {255}

\* values of byte 8: CPMM opcodes with and without fields, and one in no table
Byte8Values == {0, 5, 6, 7, 8, 9, 10}

\* <<byte 1, byte 2, byte 4, every other byte>> of a buffer
Payloads == {<<0, 0, 0, 0>>, <<232, 3, 0, 0>>, <<0, 0, 15, 0>>,
             <<255, 255, 255, 255>>}

MkData(len, b0, b8, p) ==
    [i \in 1..len |->
        CASE i = 1 -> b0
          [] i = 2 -> p[1]
          [] i = 3 -> p[2]
          [] i = 5 -> p[3]
          [] i = 9 -> b8
          [] OTHER -> p[4]]

Buffers ==
    {MkData(len, b0, b8, p) :
        len \in 0..MaxLen, b0 \in Byte0Values, b8 \in Byte8Values, p \in Payloads}

DecodeIdle ==
    /\ program_id = "" /\ data = <<>> /\ result = NoResult /\ pc = "idle"

DiscIdle ==
    /\ method_names = <<>> /\ scope = "" /\ sha256 = <<>>
    /\ created = NoResult /\ rederived = <<>>

TxIdle ==
    /\ instructions = <<>> /\ inner_instructions = <<>>
    /\ idx = 0 /\ inner_pos = 0 /\ tpc = "idle" /\ log = <<>>

Init ==
    /\ module_globals = ModuleGlobals
    /\ program_id \in ProgramIds
    /\ data \in Buffers
    /\ result = NoResult
    /\ pc = "call"
    /\ DiscIdle
    /\ TxIdle

Decode ==
    /\ pc = "call"
    /\ result' = decode_instruction_data(program_id, data)
    /\ pc' = "done"
    /\ UNCHANGED <<module_globals, program_id, data, discVars, txVars>>

Next == Decode

Spec == Init /\ [][Next]_vars

(***************************************************************************)
(* The layout the decoders read, stated as data: where each program's      *)
(* opcode lives, its opcode table, and the byte range [lo, hi) of every    *)
(* field an opcode's branch extracts.                                      *)
(***************************************************************************)
OpcodeOffset(pid) == IF pid = RAYDIUM_CPMM_PROGRAM_ID THEN 8 ELSE 0

OpcodeWidth(pid) == IF pid = SYSTEM_PROGRAM_ID THEN 4 ELSE 1

OpcodeEnd(pid) == OpcodeOffset(pid) + OpcodeWidth(pid)

\* the opcode of a buffer that holds the whole opcode field
OpcodeOf(pid, d) ==
    int_from_bytes(SubSeq(d, OpcodeOffset(pid) + 1, OpcodeEnd(pid)))

Table(pid) ==
    CASE pid = SYSTEM_PROGRAM_ID -> SYSTEM_INSTRUCTIONS
      [] pid = TOKEN_PROGRAM_ID -> TOKEN_INSTRUCTIONS
      [] pid = TOKEN_2022_PROGRAM_ID -> TOKEN_2022_INSTRUCTIONS
      [] pid = RAYDIUM_AMM_V4_PROGRAM_ID -> RAYDIUM_AMM_INSTRUCTIONS
      [] pid = RAYDIUM_CLMM_PROGRAM_ID -> RAYDIUM_CLMM_INSTRUCTIONS
      [] pid = RAYDIUM_CPMM_PROGRAM_ID -> RAYDIUM_CPMM_INSTRUCTIONS

Known(pid, op) == Get(Table(pid), op, "") # ""

F(name, lo, hi) == [name |-> name, lo |-> lo, hi |-> hi, kind |-> "uint"]

Fields(pid, op) ==
    CASE pid = SYSTEM_PROGRAM_ID /\ IsInt(op, 2) -> <<F("lamports", 4, 12)>>
      [] pid \in {TOKEN_PROGRAM_ID, TOKEN_2022_PROGRAM_ID} /\ IsInt(op, 1) ->
            <<[name |-> "owner", lo |-> 1, hi |-> 33, kind |-> "bytes"]>>
      [] pid \in {TOKEN_PROGRAM_ID, TOKEN_2022_PROGRAM_ID} /\ IsInt(op, 3) ->
            <<F("amount", 1, 9)>>
      [] pid = RAYDIUM_AMM_V4_PROGRAM_ID /\ IsInt(op, 2) ->
            <<F("amount_in", 1, 9), F("minimum_amount_out", 9, 17)>>
      [] pid = RAYDIUM_AMM_V4_PROGRAM_ID /\ (IsInt(op, 3) \/ IsInt(op, 4)) ->
            <<F("max_coin_amount", 1, 9), F("max_pc_amount", 9, 17)>>
      [] pid = RAYDIUM_CLMM_PROGRAM_ID /\ IsInt(op, 3) ->
            <<F("amount_in", 1, 9), F("amount_out_minimum", 9, 17),
              F("sqrt_price_limit", 17, 25)>>
      [] pid = RAYDIUM_CPMM_PROGRAM_ID /\ IsInt(op, 5) ->
            <<F("init_amount_0", 1, 9), F("init_amount_1", 9, 17),
              F("open_time", 17, 25)>>
      [] pid = RAYDIUM_CPMM_PROGRAM_ID /\ IsInt(op, 6) ->
            <<F("lp_token_amount", 1, 9), F("maximum_token_0_amount", 9, 17),
              F("maximum_token_1_amount", 17, 25)>>
      [] pid = RAYDIUM_CPMM_PROGRAM_ID /\ IsInt(op, 7) ->
            <<F("lp_token_amount", 1, 9), F("minimum_token_0_amount", 9, 17),
              F("minimum_token_1_amount", 17, 25)>>
      [] pid = RAYDIUM_CPMM_PROGRAM_ID /\ IsInt(op, 8) ->
            <<F("amount_in", 1, 9), F("minimum_amount_out", 9, 17)>>
      [] pid = RAYDIUM_CPMM_PROGRAM_ID /\ IsInt(op, 9) ->
            <<F("max_amount_in", 1, 9), F("amount_out", 9, 17)>>
      [] OTHER -> <<>>

\* where the last field an opcode declares ends (0 when it declares none)
FieldsEnd(pid, op) ==
    LET fs == Fields(pid, op) IN IF fs = <<>> THEN 0 ELSE fs[Len(fs)].hi

\* the value of field f read from all of its declared bytes of d
FieldValue(f, d) ==
    IF f.kind = "bytes" THEN <<hex(SubSeq(d, f.lo + 1, f.hi))>>
    ELSE int_from_bytes(SubSeq(d, f.lo + 1, f.hi))

Max(a, b) == IF a > b THEN a ELSE b

Called == pc = "done"

Registered == program_id \in RegisteredPrograms

HasOpcode == Registered /\ Len(data) >= OpcodeEnd(program_id)

Name(pid, op) == Get(Table(pid), op, Unknown(op))

(***************************************************************************)
(* Claims about one call of decode_instruction_data.                       *)
(***************************************************************************)

\* C1: for a registered program and a buffer shorter than the program's opcode
\* field needs (4 bytes for System, 9 for CPMM, 1 for the others) the call
\* returns the error result and does not raise.
C1_ShortBufferIsError ==
    (Called /\ Registered /\ Len(data) < OpcodeEnd(program_id))
        => result = InvalidLength

\* C2: when the buffer holds a known opcode that declares fields but ends before
\* the end of the last declared field, the result is the raw fallback (name and
\* hex of the whole buffer), never a mapping of fields.
C2_TruncatedIsRaw ==
    (Called /\ HasOpcode
        /\ Known(program_id, OpcodeOf(program_id, data))
        /\ Len(data) < FieldsEnd(program_id, OpcodeOf(program_id, data)))
        => result = Raw(Name(program_id, OpcodeOf(program_id, data)), data)

\* C3: for a program id outside the registry and any buffer, the empty one
\* included, the result is the unknown-program result: the program id and the
\* lower-case hex of the whole buffer ("" for the empty buffer), never the
\* error result.
C3_UnknownProgram ==
    (Called /\ ~Registered) =>
        /\ result = [program |-> program_id, raw_data |-> hex(data)]
        /\ data = <<>> => result.raw_data = ""
        /\ data = <<3, 232, 3>> => result.raw_data = "03e803"
        /\ data = <<255, 255>> => result.raw_data = "ffff"

C3_Witness ==
    /\ Called /\ program_id = ASSOCIATED_TOKEN_PROGRAM_ID /\ data = <<>>
    /\ result = [program |-> ASSOCIATED_TOKEN_PROGRAM_ID, raw_data |-> ""]

\* C4: for a registered program and a buffer that holds the opcode field, an
\* opcode outside the program's table (0 included) gives the label
\* "Unknown(<opcode>)", the opcode in decimal, with the hex of the whole buffer;
\* it never gives the unknown-program result.
C4_UnknownOpcode ==
    (Called /\ HasOpcode /\ ~Known(program_id, OpcodeOf(program_id, data))) =>
        /\ result = [type |-> "Unknown(" \o str_int(OpcodeOf(program_id, data))
                                  \o ")",
                     raw_data |-> hex(data)]
        /\ (OpcodeWidth(program_id) = 1 /\ At(data, OpcodeOffset(program_id)) = 0)
              => result.type = "Unknown(0)"
        /\ (OpcodeWidth(program_id) = 1 /\ At(data, OpcodeOffset(program_id)) = 10)
              => result.type = "Unknown(10)"
        /\ (OpcodeWidth(program_id) = 1 /\ At(data, OpcodeOffset(program_id)) = 255)
              => result.type = "Unknown(255)"
        /\ (program_id = SYSTEM_PROGRAM_ID
              /\ Slice(data, 0, 4) = <<255, 255, 255, 255>>)
              => result.type = "Unknown(4294967295)"
        /\ (program_id = SYSTEM_PROGRAM_ID /\ Slice(data, 0, 4) = <<3, 232, 3, 0>>)
              => result.type = "Unknown(256003)"

C4_Witness ==
    /\ Called /\ program_id = TOKEN_PROGRAM_ID /\ Len(data) = 9 /\ At(data, 0) = 0
    /\ result.type = "Unknown(0)"

\* C5: for a registered program, an opcode of its table and a buffer exactly as
\* long as the opcode field and the declared fields need, the result carries
\* the mapped name and every declared field, read from exactly its own bytes,
\* and no field's bytes overlap the opcode field.
C5_ExactLengthDecodes ==
    (Called /\ HasOpcode
        /\ Known(program_id, OpcodeOf(program_id, data))
        /\ Len(data) = Max(OpcodeEnd(program_id),
                           FieldsEnd(program_id, OpcodeOf(program_id, data))))
    => LET op == OpcodeOf(program_id, data)
           fs == Fields(program_id, op)
       IN  /\ "type" \in DOMAIN result
           /\ result.type = Table(program_id)[IF op = <<>> THEN 0 ELSE op[1]]
           /\ \A i \in 1..Len(fs) :
                /\ fs[i].name \in DOMAIN result
                /\ result[fs[i].name] = FieldValue(fs[i], data)
                /\ \/ fs[i].hi <= OpcodeOffset(program_id)
                   \/ fs[i].lo >= OpcodeEnd(program_id)

\* C6: for CPMM and a buffer of at least 9 bytes the name (or Unknown label) is
\* decided by byte 8 alone, whatever byte 0 is; for Token, Token-2022, AMM v4
\* and CLMM it is decided by byte 0, whatever byte 8 is.
C6_OpcodeOffset ==
    /\ (Called /\ program_id = RAYDIUM_CPMM_PROGRAM_ID /\ Len(data) >= 9) =>
          /\ "type" \in DOMAIN result
          /\ result.type = Name(program_id, ToBig(At(data, 8)))
          /\ \A b \in Byte0Values :
                decode_instruction_data(program_id, [data EXCEPT ![1] = b]).type
                    = result.type
    /\ (Called /\ Len(data) >= 1
          /\ program_id \in {TOKEN_PROGRAM_ID, TOKEN_2022_PROGRAM_ID,
                             RAYDIUM_AMM_V4_PROGRAM_ID, RAYDIUM_CLMM_PROGRAM_ID}) =>
          /\ "type" \in DOMAIN result
          /\ result.type = Name(program_id, ToBig(At(data, 0)))
          /\ Len(data) >= 9 => \A b \in Byte8Values :
                decode_instruction_data(program_id, [data EXCEPT ![9] = b]).type
                    = result.type

C6_Witness ==
    /\ Called /\ program_id = RAYDIUM_CPMM_PROGRAM_ID /\ Len(data) = 25
    /\ At(data, 8) = 5 /\ At(data, 0) = 3
    /\ result.type = "Initialize"

\* C9: for every buffer the Token and the Token-2022 program ids give equal
\* results.
C9_TokenDecodersAgree ==
    /\ (Called /\ program_id = TOKEN_PROGRAM_ID)
          => result = decode_instruction_data(TOKEN_2022_PROGRAM_ID, data)
    /\ (Called /\ program_id = TOKEN_2022_PROGRAM_ID)
          => result = decode_instruction_data(TOKEN_PROGRAM_ID, data)

C9_Witness ==
    /\ Called /\ program_id = TOKEN_2022_PROGRAM_ID
    /\ data = <<3, 232, 3, 0, 0, 0, 0, 0, 0>>
    /\ result = [type |-> "Transfer", amount |-> <<232, 3>>]

(***************************************************************************)
(* C7: the System Transfer amounts.                                        *)
(***************************************************************************)
IsTransfer ==
    /\ Called /\ program_id = SYSTEM_PROGRAM_ID /\ Len(data) >= 12
    /\ IsInt(OpcodeOf(program_id, data), 2)

\* f * d == n as Python evaluates it for a float f > 0 with a 53-bit
\* significand, a small int d >= 2 and an int n: the product of the two floats
\* is rounded to a float, which is then compared with n exactly
FloatTimesEquals(f, d, n) ==
    LET p  == Bits(BigMul(BigOfBits(f.mant), BigOfInt(d)))
        r  == RoundToFloat(p, 0, f.exp)
        m  == BigOfBits(r.mant)
    IN  IF r.exp >= 0 THEN BigShl(m, r.exp) = n ELSE m = BigShl(n, 0 - r.exp)

\* f is a float nearest to n / d, an even one on a tie: with f = mant * 2^exp
\* and exp < 0,  2 * |mant * d - n * 2^(-exp)| <= d
NearestFloat(f, n, d) ==
    IF n = <<>> THEN f = [mant |-> <<>>, exp |-> 0]
    ELSE /\ Len(f.mant) = MantBits /\ f.mant[1] = 1 /\ f.exp < 0
         /\ LET x == BigShl(BigMul(BigOfBits(f.mant), BigOfInt(d)), 1)
                y == BigShl(n, 1 - f.exp)
                h == BigOfInt(d)
            IN  /\ BigLeq(x, BigAdd(y, h))
                /\ BigLeq(y, BigAdd(x, h))
                /\ (x = BigAdd(y, h) \/ y = BigAdd(x, h)) => f.mant[MantBits] = 0

\* C7 as claimed: a System Transfer of at least 12 bytes carries lamports, the
\* little-endian 64-bit value of bytes 4..11, and sol with
\* sol * 10^9 = lamports.
C7_ScaledTimesUnitIsLamports ==
    IsTransfer =>
        /\ result.type = "Transfer"
        /\ result.lamports = int_from_bytes(SubSeq(data, 5, 12))
        /\ result.lamports # <<>>
              => FloatTimesEquals(result.sol, LAMPORTS_PER_SOL, result.lamports)

\* C7 as amended: a System Transfer of at least 12 bytes carries lamports, the
\* little-endian 64-bit value of bytes 4..11, and sol, the float nearest to
\* lamports / 10^9 (0.0 for 0, ties to the even significand).
C7_ScaledIsNearestFloat ==
    IsTransfer =>
        /\ result.type = "Transfer"
        /\ result.lamports = int_from_bytes(SubSeq(data, 5, 12))
        /\ NearestFloat(result.sol, result.lamports, LAMPORTS_PER_SOL)

C7_Witness ==
    /\ IsTransfer /\ result.lamports = <<15>>
    /\ result.sol.exp = -78
    /\ ~FloatTimesEquals(result.sol, LAMPORTS_PER_SOL, result.lamports)

(***************************************************************************)
(* One call of create_discriminators, and a later call of                  *)
(* get_instruction_discriminator with one of its names.                    *)
(***************************************************************************)
Names == {"transfer", "swap", "initialize"}

Scopes == {"global", "state"}

\* a digest: 8 leading bytes that start at a, then 24 bytes b
Digest(a, b) == [i \in 1..32 |-> IF i <= 8 THEN a + i ELSE b]

\* three digests with different leading 8 bytes, and one that shares them
Digests == {Digest(16, 0), Digest(16, 255), Digest(160, 0), Digest(240, 7)}

RECURSIVE SeqsUpTo(_, _)
SeqsUpTo(S, n) ==
    IF n = 0 THEN {<<>>}
    ELSE LET shorter == SeqsUpTo(S, n - 1)
         IN  shorter \cup {Append(q, x) : q \in shorter, x \in S}

InitDisc ==
    /\ module_globals = ModuleGlobals
    /\ DecodeIdle
    /\ TxIdle
    /\ scope \in Scopes
    /\ method_names \in SeqsUpTo(Names, MaxNames)
    /\ sha256 \in [{scope \o ":" \o n : n \in Names} -> Digests]
    /\ created = NoResult
    /\ rederived = <<>>

CreateDiscriminators ==
    /\ created = NoResult
    /\ created' = create_discriminators(method_names, scope)
    /\ UNCHANGED <<module_globals, sha256, method_names, scope, rederived,
                   decodeVars, txVars>>

Rederive ==
    /\ created # NoResult
    /\ rederived = <<>>
    /\ \E i \in 1..Len(method_names) :
          rederived' =
              <<method_names[i],
                hex(get_instruction_discriminator(method_names[i], scope))>>
    /\ UNCHANGED <<module_globals, sha256, method_names, scope, created,
                   decodeVars, txVars>>

NextDisc == CreateDiscriminators \/ Rederive

SpecDisc == InitDisc /\ [][NextDisc]_vars

Distinct(q) == \A i, j \in 1..Len(q) : i # j => q[i] # q[j]

\* no two names of the list have the same discriminator
NoCollision ==
    \A i, j \in 1..Len(method_names) :
        method_names[i] # method_names[j] =>
            SubSeq(sha256[scope \o ":" \o method_names[i]], 1, 8)
                # SubSeq(sha256[scope \o ":" \o method_names[j]], 1, 8)

\* C8: for a list of N distinct names whose discriminators do not collide, the
\* forward and the inverse map have N entries each, the inverse map inverts
\* the forward map, every discriminator is the hex of the first 8 bytes of the
\* hash of "<scope>:<name>", and a later call with the same arguments gives
\* the same discriminator.
C8_DiscriminatorMaps ==
    (created # NoResult /\ Distinct(method_names) /\ NoCollision) =>
        /\ Cardinality(DOMAIN created.func_disc) = Len(method_names)
        /\ Cardinality(DOMAIN created.disc_func) = Len(method_names)
        /\ \A i \in 1..Len(method_names) :
              LET name == method_names[i]
              IN  /\ name \in DOMAIN created.func_disc
                  /\ created.func_disc[name]
                        = hex(SubSeq(sha256[scope \o ":" \o name], 1, 8))
                  /\ created.func_disc[name] \in DOMAIN created.disc_func
                  /\ created.disc_func[created.func_disc[name]] = name
        /\ rederived # <<>> => created.func_disc[rederived[1]] = rederived[2]

C8_Witness ==
    /\ created # NoResult /\ Len(method_names) = 3
    /\ Distinct(method_names) /\ NoCollision
    /\ \E n \in Names : sha256[scope \o ":" \o n] = Digest(16, 255)
    /\ \E n \in Names : sha256[scope \o ":" \o n] = Digest(160, 0)
    /\ Cardinality(DOMAIN created.disc_func) = 3
    /\ rederived # <<>>

(***************************************************************************)
(* One run of the instruction loop of print_transaction_details: every     *)
(* top-level instruction is decoded, and after each one the inner          *)
(* instructions of the groups whose index is that instruction's.  A call   *)
(* that raises ends the run.                                               *)
(***************************************************************************)
TxPrograms ==
    {TOKEN_PROGRAM_ID, RAYDIUM_CPMM_PROGRAM_ID, ASSOCIATED_TOKEN_PROGRAM_ID}

TxBuffers == {<<3, 232, 3>>, <<3, 232, 3, 0, 0, 0, 0, 0, 8>>}

TxInstructions == [program_id : TxPrograms, data : TxBuffers]

\* at most one group of inner instructions, of one or two instructions
TxInnerGroups ==
    {<<>>} \cup
    {<<[index |-> i, instructions |-> q]>> :
        i \in 0..(MaxInstr - 2), q \in SeqsUpTo(TxInstructions, 2) \ {<<>>}}

\* the instructions of the groups x with x.index == i, in order
RECURSIVE InnerFor(_, _)
InnerFor(groups, i) ==
    IF groups = <<>> THEN <<>>
    ELSE (IF Head(groups).index = i THEN Head(groups).instructions ELSE <<>>)
         \o InnerFor(Tail(groups), i)

InitTx ==
    /\ module_globals = ModuleGlobals
    /\ DecodeIdle
    /\ DiscIdle
    /\ instructions \in SeqsUpTo(TxInstructions, MaxInstr - 1) \ {<<>>}
    /\ inner_instructions \in TxInnerGroups
    /\ idx = 0
    /\ inner_pos = 0
    /\ tpc = "top"
    /\ log = <<>>

Entry(ix, decoded) ==
    [program_id |-> ix.program_id, data |-> ix.data, result |-> decoded]

\* where the loop stands after the top-level instruction i and its inner ones
AfterInstruction(i) == IF i + 1 < Len(instructions) THEN "top" ELSE "done"

\* an inner call that takes the program id of the top-level instruction
inner_decoded_with_outer_program(ix) ==
    decode_instruction_data(instructions[idx + 1].program_id, ix.data)

\* inner_decoded = decode_instruction_data(accounts[...], b58decode(inner_ix.data))
inner_decoded(ix) == decode_instruction_data(ix.program_id, ix.data)

DecodeTop ==
    /\ tpc = "top"
    /\ LET instruction  == instructions[idx + 1]
           decoded_data == decode_instruction_data(instruction.program_id,
                                                   instruction.data)
       IN  /\ log' = Append(log, Entry(instruction, decoded_data))
           /\ IF "raise" \in DOMAIN decoded_data
              THEN tpc' = "raised" /\ UNCHANGED <<idx, inner_pos>>
              ELSE IF InnerFor(inner_instructions, idx) # <<>>
              THEN tpc' = "inner" /\ inner_pos' = 0 /\ UNCHANGED idx
              ELSE /\ tpc' = AfterInstruction(idx)
                   /\ idx' = idx + 1
                   /\ UNCHANGED inner_pos
    /\ UNCHANGED <<module_globals, sha256, instructions, inner_instructions,
                   decodeVars, method_names, scope, created, rederived>>

DecodeInner ==
    /\ tpc = "inner"
    /\ LET inner   == InnerFor(inner_instructions, idx)
           inner_ix == inner[inner_pos + 1]
           decoded == inner_decoded(inner_ix)
       IN  /\ log' = Append(log, Entry(inner_ix, decoded))
           /\ IF "raise" \in DOMAIN decoded
              THEN tpc' = "raised" /\ UNCHANGED <<idx, inner_pos>>
              ELSE IF inner_pos + 1 < Len(inner)
              THEN inner_pos' = inner_pos + 1 /\ UNCHANGED <<idx, tpc>>
              ELSE /\ tpc' = AfterInstruction(idx)
                   /\ idx' = idx + 1
                   /\ inner_pos' = 0
    /\ UNCHANGED <<module_globals, sha256, instructions, inner_instructions,
                   decodeVars, method_names, scope, created, rederived>>

NextTx == DecodeTop \/ DecodeInner

SpecTx == InitTx /\ [][NextTx]_vars

\* C10: in a run of calls, top-level and inner, every result is the result of
\* decode_instruction_data on that call's own arguments; two calls with equal
\* arguments have equal results whatever was called between them; and no call
\* changes the program-id constants.
C10_Stateless ==
    /\ module_globals = ModuleGlobals
    /\ \A i \in 1..Len(log) :
          log[i].result = decode_instruction_data(log[i].program_id, log[i].data)
    /\ \A i, j \in 1..Len(log) :
          (log[i].program_id = log[j].program_id /\ log[i].data = log[j].data)
              => log[i].result = log[j].result

C10_Witness ==
    /\ tpc = "done" /\ Len(log) = 3
    /\ log[1].program_id = log[3].program_id /\ log[1].data = log[3].data
    /\ log[2].program_id # log[1].program_id
    /\ log[1].result = [type |-> "Transfer", amount |-> <<232, 3>>]
    /\ log[3].result = log[1].result

====
